---- MODULE Spec2Model ----
(***************************************************************************)
(* A model of ibuk-dl (src/ibuk_dl/main.py).                               *)
(*                                                                         *)
(* Part I  : the download flow: perform_download_action driving an         *)
(*           IbukWebSocketSession (session bootstrap, handshake, the three *)
(*           remote operations, the page loop, the manifest), against a    *)
(*           server that answers every client packet once, in order, may   *)
(*           interleave pings and may drop the channel.                    *)
(* Part II : the PDF conversion: perform_convert_action (sort, emptiness   *)
(*           filter, semaphore-guarded render jobs, gather, merge).        *)
(*                                                                         *)
(* recv() returns a str for a text frame and bytes for a binary frame; the *)
(* server may send either.                                                 *)
(***************************************************************************)
EXTENDS Integers, Sequences, FiniteSets, TLC

\* ------------------------------------------------------------------ bounds
MaxPages == 3

MaxPings == 1

\* fragments in the source directory of a conversion
MaxFragments == 3

\* fragments of the conversion that fills the render pool
PoolFragments == 11

\* fragments of the conversion that takes every kind of content
MaxClassified == 2

\* parts of the conversion whose merge and removal can fail
MaxParts == 3

\* render jobs of the conversion followed call by call
MaxTabs == 2

VARIABLES
    \* perform_download_action
    pc,             \* position in perform_download_action / the session
    arg_count,      \* the caller's --page-count: [given, n]
    declared,       \* book_metadata.pages, as int() reads it
    page_count,     \* the local page_count after line 223
    i,              \* the loop variable of line 245
    num_downloaded, \* line 244 / 251
    pages_dir,      \* index -> html written to pages/<i>.html by this run
    fonts_css,      \* content of fonts.css, <<>> while not written
    style_css,      \* content of style.css
    css_written,    \* lines 240-243 have run
    manifest,       \* [written, num_pages_downloaded]
    exc,            \* the exception in flight, "none" if none
    stopped_at,     \* the page whose PermissionError ended the loop, 0 if none
    warnings,       \* the handshake steps that logged a mismatch
    \* IbukWebSocketSession
    ws,             \* "none" | "open" | "broken" | "closed"
    op,             \* the operation in progress: "font" | "css" | "page"
    r,              \* the message _handle_recv returned
    ret,            \* the value the operation returned to the caller
    \* the wire
    inbox,          \* packets sent by the server, not yet read by recv()
    trace,          \* every packet the client sent (S) or read (R), in order
    srv_seen,       \* how many of the client's packets the server has handled
    pings,          \* pings the server has sent
    answers,        \* what the server sent for each packet: [req, reply]
    \* perform_convert_action
    cpc,            \* position in perform_convert_action
    source_pages,   \* pages/<stem>.html of source_dir: stem -> content
    listing,        \* what glob returns: the stems, in any order
    render_fails,   \* the fragments whose rendering raises
    html_files,     \* line 427
    valid_html_files, \* lines 433-439
    semaphore,      \* the value of asyncio.Semaphore(10)
    jobs,           \* task -> "waiting" | "inside" | "returned"
    returned,       \* task -> what convert_single_page returned (0 is None)
    results,        \* line 458
    pdf_parts,      \* line 459
    temp_pdf_parts, \* the per-fragment documents on disk
    output_file,    \* [written, pages]: the merged document
    overtaken,      \* a job has returned while an earlier one had not
    merge_report,   \* what merge_pdfs printed: "none" | "aborted" | "merged"
    cleanup,        \* the cleanup argument of perform_convert_action
    source_dir,     \* "present" | "removed"
    append_fails,   \* the parts PdfWriter.append raises on
    write_raises,   \* whether PdfWriter.write raises on the output path
    remove_fails,   \* the parts os.remove raises on
    overflow,       \* the parts that span more than one physical page
    remove_log,     \* the parts os.remove was called with, in order
    style_content,  \* style, lines 394-396: the content of style.css or ''
    font_content,   \* fonts, lines 394-397: the content of fonts.css or ''
    at_call,        \* task -> the call of the try block it is about to make
    steps           \* task -> the calls it has made on the browser and its page

cvars == <<cpc, source_pages, listing, render_fails, html_files, valid_html_files,
           semaphore, jobs, returned, results, pdf_parts, temp_pdf_parts,
           output_file, overtaken, merge_report, cleanup, source_dir,
           append_fails, write_raises, remove_fails, overflow, remove_log,
           style_content, font_content, at_call, steps>>

\* the end of a conversion
wrapup == <<merge_report, cleanup, source_dir>>

\* what is injected into every page
styles == <<style_content, font_content>>

\* the render jobs, call by call
tab == <<at_call, steps>>

\* what the merge and the removal of the parts meet on disk
disk == <<append_fails, write_raises, remove_fails, overflow>>

dvars == <<pc, arg_count, declared, page_count, i, num_downloaded, pages_dir,
           fonts_css, style_css, css_written, manifest, exc, stopped_at,
           warnings, ws, op, r, ret, inbox, trace, srv_seen, pings, answers>>

\* ------------------------------------------------------------ wire packets
\* A packet is its text up to the payload (head) and the shape of the payload:
\* outer is the JSON array after "42/books,", name its first element, inner the
\* JSON the array's second element holds, and err, msg, has_html, html, num the
\* fields of that object. err is how the object holds "error": "absent", or
\* present with a value Python finds "falsy" (false, 0, "", null) or "truthy".
Pkt(head, outer, name, inner, err, msg, has_html, html, num) ==
    [head |-> head, outer |-> outer, name |-> name, inner |-> inner,
     err |-> err, msg |-> msg, has_html |-> has_html, html |-> html, num |-> num]

Bare(head) == Pkt(head, "none", "", "none", "absent", "", FALSE, <<>>, 0)

Ping == Bare("2")

Pong == Bare("3")

Probe == Bare("2probe")

ProbeOk == Bare("3probe")

Upgrade == Bare("5")

Join == Bare("40/books,")

Ready == Pkt("42/books,", "arr1", "ready", "none", "absent", "", FALSE, <<>>, 0)

Junk == Bare("junk")

\* A binary frame: recv() returns bytes, not str.
Binary == Bare("<bytes>")

\* The RPC envelope of lines 183-184, 191, 196: 42/books,["<op>","{...}"]
Envelope(o, n) == Pkt("42/books,", "arr2", o, "obj", "absent", "", FALSE, <<>>, n)

IsEnvelope(p) == p.head = "42/books," /\ p.outer = "arr2" /\ p.name \in {"font", "css", "page"}

\* What the server holds for an operation.
Content(o, n) ==
    CASE o = "page" -> <<"<p>", ToString(n)>>
      [] o = "css"  -> <<"body{}">>
      [] OTHER      -> <<"@font-face", "; format">>

\* The answers a server may give to an envelope.
RespOk(o, n) == Pkt("42/books,", "arr2", o, "obj", "absent", "", TRUE, Content(o, n), 0)

RespDenied == Pkt("42/books,", "arr2", "page", "obj", "truthy", "denied", FALSE, <<>>, 0)

RespDeniedNoMsg == Pkt("42/books,", "arr2", "page", "obj", "truthy", "", FALSE, <<>>, 0)

RespNoHtml == Pkt("42/books,", "arr2", "page", "obj", "absent", "", FALSE, <<>>, 0)

\* {"error": false, "html": ...}: the error field is there and says no error.
RespErrorFalse(n) ==
    Pkt("42/books,", "arr2", "page", "obj", "falsy", "", TRUE, Content("page", n), 0)

RespBadInner == Pkt("42/books,", "arr2", "page", "bad", "absent", "", FALSE, <<>>, 0)

RespBadOuter == Pkt("42/books,", "bad", "", "none", "absent", "", FALSE, <<>>, 0)

Responses(o, n) ==
    {RespOk(o, n), RespDenied, RespDeniedNoMsg, RespNoHtml, RespBadInner,
     RespBadOuter, Junk, Ready}
    \cup (IF o = "page" THEN {RespErrorFalse(n)} ELSE {})

\* The answers a server may give in the handshake: the expected packet or
\* something else, as a text frame or as a binary frame. (As the answer to the
\* probe a binary frame is a mismatch like any other, so Junk stands for it;
\* so it does as the response to an envelope, which _handle_recv turns into
\* a str.)
ProbeReplies == {ProbeOk, Junk}

AckReplies == {Join, Junk, Binary}

ReadyPushes == {Ready, Junk, Binary}

\* ------------------------------------------------------- decoding (l. 186)
\* json.loads(json.loads(r.split("42/books,")[1])[1])
DecodeFailure(m) ==
    IF m.head # "42/books," THEN "IndexError"              \* split(...)[1]
    ELSE IF m.outer \in {"none", "bad"} THEN "JSONDecodeError"
    ELSE IF m.outer = "arr1" THEN "IndexError"             \* [...][1]
    ELSE IF m.inner # "obj" THEN "JSONDecodeError"
    ELSE "none"

\* re.sub("; format", " format", fonts), line 199
SubFormat(s) == [k \in 1..Len(s) |-> IF s[k] = "; format" THEN " format" ELSE s[k]]

\* The outcome of an operation on the message m: [exc, val].
Outcome(e, v) == [exc |-> e, val |-> v]

\* Truthy testing for the presence of the field: "error" in data.
Truthy_if_present(e) == e # "absent"

\* data.get("error", False) as the condition of an if, line 187
Truthy(e) == e = "truthy"

get_page_result(m) ==
    IF DecodeFailure(m) # "none" THEN Outcome(DecodeFailure(m), <<>>)
    ELSE IF Truthy(m.err) THEN Outcome("PermissionError",
                               <<IF m.msg = "" THEN "Error fetching page" ELSE m.msg>>)
    ELSE IF ~m.has_html THEN Outcome("KeyError", <<>>)
    ELSE Outcome("none", m.html)

get_css_result(m) ==
    IF DecodeFailure(m) # "none" THEN Outcome(DecodeFailure(m), <<>>)
    ELSE IF ~m.has_html THEN Outcome("KeyError", <<>>)
    ELSE Outcome("none", m.html)

get_fonts_result(m) ==
    IF DecodeFailure(m) # "none" THEN Outcome(DecodeFailure(m), <<>>)
    ELSE IF ~m.has_html THEN Outcome("KeyError", <<>>)
    ELSE Outcome("none", SubFormat(m.html))

\* ------------------------------------------------------------------- Init
InitDownload ==
    /\ pc = "start"
    /\ arg_count \in {[given |-> FALSE, n |-> 0]} \cup {[given |-> TRUE, n |-> k] : k \in 0..MaxPages}
    /\ declared \in IF arg_count.given THEN {1} ELSE 1..MaxPages
    /\ page_count = 0
    /\ i = 0
    /\ num_downloaded = 0
    /\ pages_dir = <<>>
    /\ fonts_css = <<>>
    /\ style_css = <<>>
    /\ css_written = FALSE
    /\ manifest = [written |-> FALSE, num_pages_downloaded |-> 0]
    /\ exc = "none"
    /\ stopped_at = 0
    /\ warnings = {}
    /\ ws = "none"
    /\ op = "none"
    /\ r = Junk
    /\ ret = <<>>
    /\ inbox = <<>>
    /\ trace = <<>>
    /\ srv_seen = 0
    /\ pings = 0
    /\ answers = <<>>

\* No download is in progress.
IdleDownload ==
    /\ pc = "idle"
    /\ arg_count = [given |-> FALSE, n |-> 0]
    /\ declared = 0
    /\ page_count = 0
    /\ i = 0
    /\ num_downloaded = 0
    /\ pages_dir = <<>>
    /\ fonts_css = <<>>
    /\ style_css = <<>>
    /\ css_written = FALSE
    /\ manifest = [written |-> FALSE, num_pages_downloaded |-> 0]
    /\ exc = "none"
    /\ stopped_at = 0
    /\ warnings = {}
    /\ ws = "none"
    /\ op = "none"
    /\ r = Junk
    /\ ret = <<>>
    /\ inbox = <<>>
    /\ trace = <<>>
    /\ srv_seen = 0
    /\ pings = 0
    /\ answers = <<>>


\* ------------------------------------------------------------ the channel
Sends == SelectSeq(trace, LAMBDA e : e.dir = "S")

Reads == SelectSeq(trace, LAMBDA e : e.dir = "R")

args == <<arg_count, declared, page_count>>

files == <<pages_dir, fonts_css, style_css, css_written, manifest>>

server == <<srv_seen, pings, answers>>

\* ws.send(p): the packet goes out, or the channel is found lost,
\* ConnectionClosed is raised and control goes to `failed`.
ws_send(p, next, failed) ==
    \E lost \in BOOLEAN :
       IF ~lost
       THEN /\ trace' = Append(trace, [dir |-> "S", pkt |-> p])
            /\ pc' = next
            /\ exc' = exc
            /\ ws' = ws
       ELSE /\ trace' = trace
            /\ pc' = failed
            /\ exc' = "ConnectionClosed"
            /\ ws' = "broken"

\* ws.recv() returns the next packet the server sent, or, none being left,
\* finds the channel lost and raises ConnectionClosed.
ws_recv_lost == [dir |-> "R", pkt |-> Bare("")]

ws_recv_outcomes == IF inbox # <<>> THEN {[dir |-> "R", pkt |-> Head(inbox)]} ELSE {ws_recv_lost}

\* --------------------------------------------- perform_download_action 1/2
\* lines 222-223: "if not page_count" is true for None and for 0.
Start ==
    /\ pc = "start"
    /\ page_count' = IF ~arg_count.given \/ arg_count.n = 0 THEN declared ELSE arg_count.n
    /\ pc' = "create_session"
    /\ UNCHANGED <<cvars, arg_count, declared, i, num_downloaded, files, exc, stopped_at,
                   warnings, ws, op, r, ret, inbox, trace, server>>

\* create_session going on to open the channel whatever the polling response.
create_session_unchecked ==
    /\ pc = "create_session"
    /\ \E e \in {"none", "HTTPError", "KeyError"} :
          /\ exc' = e
          /\ pc' = "ws_connect"
    /\ UNCHANGED <<cvars, args, i, num_downloaded, files, stopped_at, warnings, ws, op, r,
                   ret, inbox, trace, server>>

\* _create_session, lines 153-158: raise_for_status() or the missing "sid"
\* raises; __aenter__ has not returned, so __aexit__ will not run.
create_session ==
    /\ pc = "create_session"
    /\ \E e \in {"none", "HTTPError", "KeyError"} :
          /\ exc' = e
          /\ pc' = IF e = "none" THEN "ws_connect" ELSE "raised"
    /\ UNCHANGED <<cvars, args, i, num_downloaded, files, stopped_at, warnings, ws, op, r,
                   ret, inbox, trace, server>>

\* websockets.connect, line 144
ws_connect ==
    /\ pc = "ws_connect"
    /\ \E ok \in BOOLEAN :
          /\ ws' = IF ok THEN "open" ELSE ws
          /\ exc' = IF ok THEN exc ELSE "OSError"
          /\ pc' = IF ok THEN "hello_probe" ELSE "raised"
    /\ UNCHANGED <<cvars, args, i, num_downloaded, files, stopped_at, warnings, op, r,
                   ret, inbox, trace, server>>

\* ------------------------------------------------------------------ _hello
\* line 164
hello_send_probe ==
    /\ pc = "hello_probe"
    /\ ws_send(Probe, "hello_probe_recv", "raised")
    /\ UNCHANGED <<cvars, args, i, num_downloaded, files, stopped_at, warnings, op, r,
                   ret, inbox, server>>

\* resp != "3probe", line 166
IsProbeOk(m) == m = ProbeOk

\* ack_msg.startswith("40/books,"), line 170
IsAck(m) == m.head = "40/books,"

\* "42/books,[\"ready\"" in ready_msg, line 172
IsReady(m) == m.head = "42/books," /\ m.outer \in {"arr1", "arr2"} /\ m.name = "ready"

\* The check _hello makes on what it reads at `here`.
Expected(here, m) ==
    CASE here = "hello_probe_recv" -> IsProbeOk(m)
      [] here = "hello_ack_recv"   -> IsAck(m)
      [] OTHER                     -> IsReady(m)

\* The check itself raises: bytes.startswith(str) (line 170) and
\* str in bytes (line 172) are TypeErrors; resp != "3probe" (line 166) is not.
CheckRaises(here, m) == here # "hello_probe_recv" /\ m = Binary

\* One recv() of _hello followed by its check: a mismatch is logged, nothing
\* more; an exception raised by the check leaves _hello, and with it
\* __aenter__, so that __aexit__ will not run.
hello_recv(here, next) ==
    /\ pc = here
    /\ \E e \in ws_recv_outcomes :
          IF e # ws_recv_lost
          THEN /\ trace' = Append(trace, e)
               /\ inbox' = Tail(inbox)
               /\ IF CheckRaises(here, e.pkt)
                  THEN /\ exc' = "TypeError"
                       /\ pc' = "raised"
                       /\ UNCHANGED <<warnings, ws>>
                  ELSE /\ warnings' = IF Expected(here, e.pkt) THEN warnings
                                      ELSE warnings \cup {here}
                       /\ pc' = next
                       /\ UNCHANGED <<exc, ws>>
          ELSE /\ exc' = "ConnectionClosed"
               /\ ws' = "broken"
               /\ pc' = "raised"
               /\ UNCHANGED <<trace, inbox, warnings>>
    /\ UNCHANGED <<cvars, args, i, num_downloaded, files, stopped_at, r, ret, server>>

\* hello_recv_probe without the recv(): the probe's answer is left unread.
hello_recv_probe_unread ==
    /\ pc = "hello_probe_recv"
    /\ pc' = "hello_upgrade"
    /\ UNCHANGED <<cvars, args, i, num_downloaded, files, exc, stopped_at, warnings, ws,
                   op, r, ret, inbox, trace, server>>

\* lines 165-166
hello_recv_probe ==
    /\ hello_recv("hello_probe_recv", "hello_upgrade")
    /\ UNCHANGED op

\* line 167
hello_send_upgrade ==
    /\ pc = "hello_upgrade"
    /\ ws_send(Upgrade, "hello_join", "raised")
    /\ UNCHANGED <<cvars, args, i, num_downloaded, files, stopped_at, warnings, op, r,
                   ret, inbox, server>>

\* line 168
hello_send_join ==
    /\ pc = "hello_join"
    /\ ws_send(Join, "hello_ack_recv", "raised")
    /\ UNCHANGED <<cvars, args, i, num_downloaded, files, stopped_at, warnings, op, r,
                   ret, inbox, server>>

\* lines 169-170
hello_recv_ack ==
    /\ hello_recv("hello_ack_recv", "hello_ready_recv")
    /\ UNCHANGED op

\* lines 171-172; _hello, _connect and __aenter__ return: the body of the
\* "async with" starts with get_fonts (line 239).
hello_recv_ready ==
    /\ hello_recv("hello_ready_recv", "op_send")
    /\ op' = IF pc' = "op_send" THEN "font" ELSE op

\* ------------------------------------------- get_fonts / get_css / get_page
\* op_send with get_fonts and get_css started together: the stylesheet
\* envelope goes out before the font response has been awaited.
op_send_pipelined ==
    /\ pc = "op_send"
    /\ ws_send(Envelope(op, IF op = "page" THEN i ELSE 0),
               IF op = "font" THEN "op_send" ELSE "op_recv", "aexit")
    /\ op' = IF op = "font" /\ pc' = "op_send" THEN "css" ELSE op
    /\ UNCHANGED <<cvars, args, i, num_downloaded, files, stopped_at, warnings, r,
                   ret, inbox, server>>

\* lines 183-184, 191, 196: the operation sends its envelope. An exception
\* raised in the body of the "async with" runs __aexit__.
op_send ==
    /\ pc = "op_send"
    /\ ws_send(Envelope(op, IF op = "page" THEN i ELSE 0), "op_recv", "aexit")
    /\ UNCHANGED <<cvars, args, i, num_downloaded, files, stopped_at, warnings, op, r,
                   ret, inbox, server>>

\* _handle_recv that goes back to recv() without answering the ping.
handle_recv_no_pong ==
    /\ pc = "op_recv"
    /\ \E e \in ws_recv_outcomes :
          IF e # ws_recv_lost
          THEN /\ trace' = Append(trace, e)
               /\ inbox' = Tail(inbox)
               /\ r' = IF e.pkt = Ping THEN r ELSE e.pkt
               /\ pc' = IF e.pkt = Ping THEN "op_recv" ELSE "op_return"
               /\ UNCHANGED <<exc, ws>>
          ELSE /\ exc' = "ConnectionClosed"
               /\ ws' = "broken"
               /\ pc' = "aexit"
               /\ UNCHANGED <<trace, inbox, r>>
    /\ UNCHANGED <<cvars, args, i, num_downloaded, files, stopped_at, warnings, op, ret, server>>

\* _handle_recv, lines 175-180: one recv(); a bare "2" is to be answered,
\* anything else is returned.
handle_recv ==
    /\ pc = "op_recv"
    /\ \E e \in ws_recv_outcomes :
          IF e # ws_recv_lost
          THEN /\ trace' = Append(trace, e)
               /\ inbox' = Tail(inbox)
               /\ r' = IF e.pkt = Ping THEN r ELSE e.pkt
               /\ pc' = IF e.pkt = Ping THEN "op_pong" ELSE "op_return"
               /\ UNCHANGED <<exc, ws>>
          ELSE /\ exc' = "ConnectionClosed"
               /\ ws' = "broken"
               /\ pc' = "aexit"
               /\ UNCHANGED <<trace, inbox, r>>
    /\ UNCHANGED <<cvars, args, i, num_downloaded, files, stopped_at, warnings, op, ret, server>>

\* line 178, then back to recv()
handle_recv_pong ==
    /\ pc = "op_pong"
    /\ ws_send(Pong, "op_recv", "aexit")
    /\ UNCHANGED <<cvars, args, i, num_downloaded, files, stopped_at, warnings, op, r,
                   ret, inbox, server>>

\* lines 197-199 and line 239 (first half): get_fonts returns or raises.
get_fonts ==
    /\ pc = "op_return" /\ op = "font"
    /\ LET o == get_fonts_result(r) IN
          /\ exc' = o.exc
          /\ ret' = o.val
          /\ fonts_css' = IF o.exc = "none" THEN o.val ELSE fonts_css
          /\ op' = IF o.exc = "none" THEN "css" ELSE op
          /\ pc' = IF o.exc = "none" THEN "op_send" ELSE "aexit"
    /\ UNCHANGED <<cvars, args, i, num_downloaded, pages_dir, style_css, css_written, manifest,
                   stopped_at, warnings, ws, r, inbox, trace, server>>

\* lines 192-193 and lines 239-244: get_css returns or raises; on return both
\* files are written and num_downloaded is set to 0.
get_css ==
    /\ pc = "op_return" /\ op = "css"
    /\ LET o == get_css_result(r) IN
          /\ exc' = o.exc
          /\ ret' = o.val
          /\ style_css' = IF o.exc = "none" THEN o.val ELSE style_css
          /\ css_written' = (o.exc = "none")
          /\ pc' = IF o.exc = "none" THEN "loop" ELSE "aexit"
    /\ num_downloaded' = 0
    /\ UNCHANGED <<cvars, args, i, pages_dir, fonts_css, manifest, stopped_at, warnings, ws,
                   op, r, inbox, trace, server>>

\* ----------------------------------------------- perform_download_action 2/2
\* line 245: the next index of range(1, page_count + 1), or the end of the loop.
loop_next ==
    /\ pc = "loop"
    /\ IF i + 1 <= page_count
       THEN /\ i' = i + 1
            /\ op' = "page"
            /\ pc' = "op_send"
       ELSE /\ pc' = "aexit"
            /\ UNCHANGED <<i, op>>
    /\ UNCHANGED <<cvars, args, num_downloaded, files, exc, stopped_at, warnings, ws, r, ret,
                   inbox, trace, server>>

\* page_handler with "except Exception" in place of "except PermissionError".
page_handler_catch_all(o) == IF o.exc = "none" THEN "write" ELSE "break"

\* page_handler without the "except PermissionError" clause.
page_handler_no_except(o) == IF o.exc = "none" THEN "write" ELSE "raise"

\* What the loop body does with the outcome of get_page (lines 247-254):
\* "write" the fragment, "break" on PermissionError, "raise" anything else.
page_handler(o) ==
    IF o.exc = "none" THEN "write"
    ELSE IF o.exc = "PermissionError" THEN "break"
    ELSE "raise"

\* get_page with the fragment written under the count of the pages written
\* so far instead of the loop index.
get_page_by_count ==
    /\ pc = "op_return" /\ op = "page"
    /\ LET o == get_page_result(r)
           h == page_handler(o)
       IN /\ ret' = o.val
          /\ exc' = IF h = "raise" THEN o.exc ELSE "none"
          /\ pages_dir' = IF h = "write" THEN (num_downloaded :> o.val) @@ pages_dir
                          ELSE pages_dir
          /\ num_downloaded' = IF h = "write" THEN num_downloaded + 1 ELSE num_downloaded
          /\ stopped_at' = IF h = "break" THEN i ELSE stopped_at
          /\ pc' = IF h = "write" THEN "loop" ELSE "aexit"
    /\ UNCHANGED <<cvars, args, i, fonts_css, style_css, css_written, manifest, warnings, ws,
                   op, r, inbox, trace, server>>

\* get_page with the loop trying the page again when its response cannot be
\* decoded.
get_page_retrying ==
    /\ pc = "op_return" /\ op = "page"
    /\ LET o == get_page_result(r)
           h == page_handler(o)
       IN /\ ret' = o.val
          /\ exc' = "none"
          /\ pages_dir' = IF h = "write" THEN (i :> o.val) @@ pages_dir ELSE pages_dir
          /\ num_downloaded' = IF h = "write" THEN num_downloaded + 1 ELSE num_downloaded
          /\ stopped_at' = IF h = "break" THEN i ELSE stopped_at
          /\ pc' = IF h = "write" THEN "loop" ELSE IF h = "raise" THEN "op_send" ELSE "aexit"
    /\ UNCHANGED <<cvars, args, i, fonts_css, style_css, css_written, manifest, warnings, ws,
                   op, r, inbox, trace, server>>

\* lines 185-188 and 248-254
get_page ==
    /\ pc = "op_return" /\ op = "page"
    /\ LET o == get_page_result(r)
           h == page_handler(o)
       IN /\ ret' = o.val
          /\ exc' = IF h = "raise" THEN o.exc ELSE "none"
          /\ pages_dir' = IF h = "write" THEN (i :> o.val) @@ pages_dir ELSE pages_dir
          /\ num_downloaded' = IF h = "write" THEN num_downloaded + 1 ELSE num_downloaded
          /\ stopped_at' = IF h = "break" THEN i ELSE stopped_at
          /\ pc' = IF h = "write" THEN "loop" ELSE "aexit"
    /\ UNCHANGED <<cvars, args, i, fonts_css, style_css, css_written, manifest, warnings, ws,
                   op, r, inbox, trace, server>>

\* __aexit__ / close, lines 150-151 and 160-161; the exception in flight, if
\* any, then leaves perform_download_action.
aexit ==
    /\ pc = "aexit"
    /\ ws' = "closed"
    /\ pc' = IF exc = "none" THEN "manifest" ELSE "raised"
    /\ UNCHANGED <<cvars, args, i, num_downloaded, files, exc, stopped_at, warnings, op, r,
                   ret, inbox, trace, server>>

\* write_manifest recording the loop index instead of num_downloaded.
write_manifest_loop_index ==
    /\ pc = "manifest"
    /\ manifest' = [written |-> TRUE, num_pages_downloaded |-> i]
    /\ pc' = "done"
    /\ UNCHANGED <<cvars, args, i, num_downloaded, pages_dir, fonts_css, style_css,
                   css_written, exc, stopped_at, warnings, ws, op, r, ret, inbox, trace,
                   server>>

\* lines 255-261
write_manifest ==
    /\ pc = "manifest"
    /\ manifest' = [written |-> TRUE, num_pages_downloaded |-> num_downloaded]
    /\ pc' = "done"
    /\ UNCHANGED <<cvars, args, i, num_downloaded, pages_dir, fonts_css, style_css, css_written,
                   exc, stopped_at, warnings, ws, op, r, ret, inbox, trace, server>>

\* ------------------------------------------------------------- the server
\* What the server sends back for one client packet: nothing for "5" and "3",
\* one packet for the probe, two for the namespace join (the acknowledgement
\* and the pushed event), one event for an envelope.
Replies(p) ==
    IF p = Probe THEN {<<h>> : h \in ProbeReplies}
    ELSE IF p = Join THEN {<<a, b>> : a \in AckReplies, b \in ReadyPushes}
    ELSE IF IsEnvelope(p) THEN {<<a>> : a \in Responses(p.name, p.num)}
    ELSE {<<>>}

server_handle ==
    /\ ws = "open"
    /\ srv_seen < Len(Sends)
    /\ \E reply \in Replies(Sends[srv_seen + 1].pkt) :
          /\ inbox' = inbox \o reply
          /\ answers' = Append(answers, [req |-> Sends[srv_seen + 1].pkt, reply |-> reply])
    /\ srv_seen' = srv_seen + 1
    /\ UNCHANGED <<cvars, pc, args, i, num_downloaded, files, exc, stopped_at, warnings, ws,
                   op, r, ret, trace, pings>>

\* The server's heartbeat: a bare "2" at any time.
server_ping ==
    /\ ws = "open"
    /\ pings < MaxPings
    /\ inbox' = Append(inbox, Ping)
    /\ pings' = pings + 1
    /\ UNCHANGED <<cvars, pc, args, i, num_downloaded, files, exc, stopped_at, warnings, ws,
                   op, r, ret, trace, srv_seen, answers>>

NextDownload ==
    \/ Start
    \/ create_session
    \/ ws_connect
    \/ hello_send_probe
    \/ hello_recv_probe
    \/ hello_send_upgrade
    \/ hello_send_join
    \/ hello_recv_ack
    \/ hello_recv_ready
    \/ op_send
    \/ handle_recv
    \/ handle_recv_pong
    \/ get_fonts
    \/ get_css
    \/ loop_next
    \/ get_page
    \/ aexit
    \/ write_manifest
    \/ server_handle
    \/ server_ping

vars == <<dvars, cvars>>


\* =========================================================== conversion
\* The content of a fragment file, as is_html_empty looks at it: whether it
\* can be read and parsed, has a body, and whether the body has text, a media
\* element, and where an inline style with "url(" is: "none", "inner" (on an
\* element inside the body) or "body" (on the body element only).
Fragment(readable, body, text, media, style_url) ==
    [readable |-> readable, body |-> body, text |-> text, media |-> media,
     style_url |-> style_url]

\* <body></body>
EmptyBody == Fragment(TRUE, TRUE, FALSE, FALSE, "none")

\* <body><img src=x></body>
ImgBody == Fragment(TRUE, TRUE, FALSE, TRUE, "none")

\* A file with an empty body that cannot be opened or decoded.
Unreadable == Fragment(FALSE, TRUE, FALSE, FALSE, "none")

\* A document without a body.
NoBody == Fragment(TRUE, FALSE, FALSE, FALSE, "none")

\* Every kind of content is_html_empty tells apart.
FragmentKinds ==
    {Unreadable, NoBody}
    \cup {Fragment(TRUE, TRUE, t, m, u) : t \in BOOLEAN, m \in BOOLEAN,
                                          u \in {"none", "inner", "body"}}

\* is_html_empty looking at the text only.
is_html_empty_text_only(c) ==
    IF ~c.readable THEN FALSE
    ELSE IF ~c.body THEN TRUE
    ELSE ~c.text

\* lines 271-300; body.find_all(True) (line 292) yields the elements inside
\* the body, not the body element.
is_html_empty(c) ==
    IF ~c.readable THEN FALSE                   \* except Exception: return False
    ELSE IF ~c.body THEN TRUE
    ELSE IF ~c.text /\ ~c.media THEN c.style_url # "inner"
    ELSE FALSE

\* sorted(html_files, key=int(stem)), line 427: insertion into a sorted list,
\* after the elements with a key that is not larger (the sort is stable).
RECURSIVE Insert(_, _)
Insert(x, s) ==
    IF s = <<>> THEN <<x>>
    ELSE IF x < Head(s) THEN <<x>> \o s
    ELSE <<Head(s)>> \o Insert(x, Tail(s))

\* sorted without the sort: the files in the order glob listed them.
sorted_as_listed(s) == s

RECURSIVE sorted(_)
sorted(s) == IF s = <<>> THEN <<>> ELSE Insert(s[Len(s)], sorted(SubSeq(s, 1, Len(s) - 1)))

Range(s) == {s[k] : k \in 1..Len(s)}

\* The orders glob can list a set of files in.
Listings(S) == {l \in [1..Cardinality(S) -> S] : Range(l) = S}

NoOutput == [written |-> FALSE, pages |-> <<>>]

InitConvertWith(stems, contents, listings) ==
    /\ cpc = "start"
    /\ source_pages \in [stems -> contents]
    /\ listing \in listings
    /\ html_files = <<>>
    /\ valid_html_files = <<>>
    /\ semaphore = 0
    /\ jobs = <<>>
    /\ returned = <<>>
    /\ results = <<>>
    /\ pdf_parts = <<>>
    /\ temp_pdf_parts = {}
    /\ output_file = NoOutput
    /\ overtaken = FALSE
    /\ merge_report = "none"
    /\ source_dir = "present"
    /\ remove_log = <<>>
    /\ at_call = <<>>
    /\ steps = <<>>

\* Both style.css and fonts.css were read and neither is empty.
BothStyles ==
    /\ style_content = "style.css"
    /\ font_content = "fonts.css"

\* Every part can be appended and removed, none overflows its page, and the
\* output path can be written.
SoundDisk ==
    /\ append_fails = {}
    /\ write_raises = FALSE
    /\ remove_fails = {}
    /\ overflow = {}

\* Any set of fragments, each empty or not, any of them failing to render.
InitConvert ==
    /\ IdleDownload
    /\ \E stems \in SUBSET (1..MaxFragments) :
          InitConvertWith(stems, {EmptyBody, ImgBody}, Listings(stems))
    /\ render_fails \in SUBSET DOMAIN source_pages
    /\ cleanup \in BOOLEAN
    /\ SoundDisk
    /\ BothStyles

\* More fragments than the semaphore admits, listed last first, at most one
\* of them failing to render.
InitPool ==
    /\ IdleDownload
    /\ InitConvertWith(1..PoolFragments, {ImgBody},
                       {[k \in 1..PoolFragments |-> PoolFragments + 1 - k]})
    /\ render_fails \in {{}} \cup {{f} : f \in 1..PoolFragments}
    /\ cleanup = TRUE
    /\ SoundDisk
    /\ BothStyles

\* Fragments 1..MaxClassified of every kind, listed in order, all rendering.
InitClassify ==
    /\ IdleDownload
    /\ InitConvertWith(1..MaxClassified, FragmentKinds, {[k \in 1..MaxClassified |-> k]})
    /\ render_fails = {}
    /\ cleanup = FALSE
    /\ SoundDisk
    /\ BothStyles

\* Non-empty fragments 1..MaxParts listed in order, the first of them failing
\* to render or none; any of the parts spanning two pages, failing to be
\* appended or failing to be removed; an output path that can be written or
\* cannot.
InitMerge ==
    /\ IdleDownload
    /\ InitConvertWith(1..MaxParts, {ImgBody}, {[k \in 1..MaxParts |-> k]})
    /\ render_fails \in {{}, {1}}
    /\ cleanup = FALSE
    /\ append_fails \in SUBSET (1..MaxParts)
    /\ write_raises \in BOOLEAN
    /\ remove_fails \in SUBSET (1..MaxParts)
    /\ overflow \in SUBSET (1..MaxParts)
    /\ BothStyles

\* Non-empty fragments 1..MaxTabs listed in order, any of them failing to
\* render; a stylesheet and a font bundle that are each there or empty.
InitRender ==
    /\ IdleDownload
    /\ InitConvertWith(1..MaxTabs, {ImgBody}, {[k \in 1..MaxTabs |-> k]})
    /\ render_fails \in SUBSET (1..MaxTabs)
    /\ cleanup = FALSE
    /\ SoundDisk
    /\ style_content \in {"", "style.css"}
    /\ font_content \in {"", "fonts.css"}

\* No conversion is in progress.
IdleConvert ==
    /\ cpc = "idle"
    /\ source_pages = <<>>
    /\ listing = <<>>
    /\ render_fails = {}
    /\ html_files = <<>>
    /\ valid_html_files = <<>>
    /\ semaphore = 0
    /\ jobs = <<>>
    /\ returned = <<>>
    /\ results = <<>>
    /\ pdf_parts = <<>>
    /\ temp_pdf_parts = {}
    /\ output_file = NoOutput
    /\ overtaken = FALSE
    /\ merge_report = "none"
    /\ cleanup = FALSE
    /\ source_dir = "present"
    /\ SoundDisk
    /\ remove_log = <<>>
    /\ BothStyles
    /\ at_call = <<>>
    /\ steps = <<>>

\* ------------------------------------------------- perform_convert_action
\* lines 420-429: no file, no conversion; else the files in index order.
\* Every stem is an index, as line 249 names the files, so int() does not
\* raise and the fallback of line 429 is not taken.
sort_files ==
    /\ cpc = "start"
    /\ html_files' = sorted(listing)
    /\ cpc' = IF listing = <<>> THEN "done" ELSE "classify"
    /\ UNCHANGED <<dvars, styles, tab, disk, remove_log, wrapup, source_pages, listing, render_fails, valid_html_files,
                   semaphore, jobs, returned, results, pdf_parts, temp_pdf_parts,
                   output_file, overtaken>>

IsValid(f) == ~is_html_empty(source_pages[f])

\* lines 433-445
classify ==
    /\ cpc = "classify"
    /\ valid_html_files' = SelectSeq(html_files, IsValid)
    /\ cpc' = "launch"
    /\ UNCHANGED <<dvars, styles, tab, disk, remove_log, wrapup, source_pages, listing, render_fails, html_files, semaphore,
                   jobs, returned, results, pdf_parts, temp_pdf_parts, output_file,
                   overtaken>>

\* asyncio.Semaphore(10), line 451
SemaphoreValue == 10

\* lines 447-458: the semaphore, one task per valid file, and gather starts them.
launch ==
    /\ cpc = "launch"
    /\ semaphore' = SemaphoreValue
    /\ jobs' = [j \in 1..Len(valid_html_files) |-> "waiting"]
    /\ returned' = [j \in 1..Len(valid_html_files) |-> 0]
    /\ at_call' = [j \in 1..Len(valid_html_files) |-> "newPage"]
    /\ steps' = [j \in 1..Len(valid_html_files) |-> <<>>]
    /\ cpc' = "gather"
    /\ UNCHANGED <<dvars, styles, disk, remove_log, wrapup, source_pages, listing, render_fails, html_files,
                   valid_html_files, results, pdf_parts, temp_pdf_parts, output_file,
                   overtaken>>

\* ---------------------------------------------------- convert_single_page
\* CanAcquire without the semaphore: every task enters at once.
CanAcquire_unbounded(j) == \A k \in 1..(j - 1) : jobs[k] # "waiting"

\* "async with semaphore", line 307: a task gets a permit when one is free;
\* tasks start, and waiters are woken, in the order gather was given them.
CanAcquire(j) == semaphore > 0 /\ \A k \in 1..(j - 1) : jobs[k] # "waiting"

acquire(j) ==
    /\ cpc = "gather"
    /\ jobs[j] = "waiting"
    /\ CanAcquire(j)
    /\ semaphore' = semaphore - 1
    /\ jobs' = [jobs EXCEPT ![j] = "inside"]
    /\ UNCHANGED <<dvars, styles, tab, disk, remove_log, wrapup, cpc, source_pages, listing, render_fails, html_files,
                   valid_html_files, returned, results, pdf_parts, temp_pdf_parts,
                   output_file, overtaken>>

\* job_result returning the path whether or not the rendering raised.
job_result_always_path(f) == f

\* What the job returns (lines 341 and 343-350): the path of its document, or
\* None (0) when a step of the try block raised.
job_result(f) == IF f \in render_fails THEN 0 ELSE f

\* convert_single_page keeping its permit when the rendering raised.
convert_single_page_leaking(j) ==
    /\ cpc = "gather"
    /\ jobs[j] = "inside"
    /\ returned' = [returned EXCEPT ![j] = job_result(valid_html_files[j])]
    /\ temp_pdf_parts' = IF returned'[j] # 0 THEN temp_pdf_parts \cup {returned'[j]}
                         ELSE temp_pdf_parts
    /\ jobs' = [jobs EXCEPT ![j] = "returned"]
    /\ semaphore' = IF returned'[j] # 0 THEN semaphore + 1 ELSE semaphore
    /\ overtaken' = (overtaken \/ \E k \in 1..(j - 1) : jobs[k] # "returned")
    /\ UNCHANGED <<dvars, styles, tab, disk, remove_log, wrapup, cpc, source_pages, listing, render_fails, html_files,
                   valid_html_files, results, pdf_parts, output_file>>

\* lines 308-350: the render steps, the return, and the release of the permit
\* on the way out of the "async with".
convert_single_page(j) ==
    /\ cpc = "gather"
    /\ jobs[j] = "inside"
    /\ returned' = [returned EXCEPT ![j] = job_result(valid_html_files[j])]
    /\ temp_pdf_parts' = IF returned'[j] # 0 THEN temp_pdf_parts \cup {returned'[j]}
                         ELSE temp_pdf_parts
    /\ jobs' = [jobs EXCEPT ![j] = "returned"]
    /\ semaphore' = semaphore + 1
    /\ overtaken' = (overtaken \/ \E k \in 1..(j - 1) : jobs[k] # "returned")
    /\ UNCHANGED <<dvars, styles, tab, disk, remove_log, wrapup, cpc, source_pages, listing, render_fails, html_files,
                   valid_html_files, results, pdf_parts, output_file>>

\* ------------------------------------ convert_single_page, call by call
\* The awaits of the try block (lines 315-334): "newPage", "goto", "fonts"
\* and "style" (the two addStyleTag), "pdf", "close".
Calls == {"newPage", "goto", "fonts", "style", "pdf", "close"}

\* What is logged for a call: its name and, for addStyleTag, the content
\* injected.
CallMade(c) ==
    CASE c = "fonts" -> [call |-> "addStyleTag", content |-> font_content]
      [] c = "style" -> [call |-> "addStyleTag", content |-> style_content]
      [] OTHER -> [call |-> c, content |-> ""]

\* The try block injecting the stylesheet before the font bundle.
NextCall_style_first(c) ==
    CASE c = "newPage" -> "goto"
      [] c = "goto" -> IF style_content # "" THEN "style"
                       ELSE IF font_content # "" THEN "fonts" ELSE "pdf"
      [] c = "style" -> IF font_content # "" THEN "fonts" ELSE "pdf"
      [] c = "fonts" -> "pdf"
      [] c = "pdf" -> "close"
      [] c = "close" -> "return"

\* lines 315-341: the call that follows the call c when c has returned;
\* "if font_content" (line 321) and "if style_content" (line 323) skip an
\* empty injection.
NextCall(c) ==
    CASE c = "newPage" -> "goto"
      [] c = "goto" -> IF font_content # "" THEN "fonts"
                       ELSE IF style_content # "" THEN "style" ELSE "pdf"
      [] c = "fonts" -> IF style_content # "" THEN "style" ELSE "pdf"
      [] c = "style" -> "pdf"
      [] c = "pdf" -> "close"
      [] c = "close" -> "return"

\* Whether the call the task j is about to make can raise: no call of a
\* fragment that renders does, and a fragment that fails to render has
\* raised by the last call at the latest.
Raises(j) ==
    IF valid_html_files[j] \notin render_fails THEN {FALSE}
    ELSE IF at_call[j] = "close" THEN {TRUE}
    ELSE BOOLEAN

\* One await of lines 315-334: the call is made and returns, or raises and
\* the except clause is entered; page.pdf that returns has written the
\* document to temp_dir.
render_call(j) ==
    /\ cpc = "gather"
    /\ jobs[j] = "inside"
    /\ at_call[j] \in Calls
    /\ steps' = [steps EXCEPT ![j] = Append(@, CallMade(at_call[j]))]
    /\ \E raised \in Raises(j) :
          /\ at_call' = [at_call EXCEPT ![j] = IF raised THEN "except" ELSE NextCall(@)]
          /\ temp_pdf_parts' = IF at_call[j] = "pdf" /\ ~raised
                               THEN temp_pdf_parts \cup {valid_html_files[j]}
                               ELSE temp_pdf_parts
    /\ UNCHANGED <<dvars, styles, disk, remove_log, wrapup, cpc, source_pages, listing,
                   render_fails, html_files, valid_html_files, semaphore, jobs, returned,
                   results, pdf_parts, output_file, overtaken>>

\* The task leaves convert_single_page with the result res, and the
\* "async with" gives the permit back.
leave(j, res) ==
    /\ returned' = [returned EXCEPT ![j] = res]
    /\ jobs' = [jobs EXCEPT ![j] = "returned"]
    /\ at_call' = [at_call EXCEPT ![j] = "returned"]
    /\ semaphore' = semaphore + 1
    /\ overtaken' = (overtaken \/ \E k \in 1..(j - 1) : jobs[k] # "returned")

\* lines 336-341: progress is printed and pdf_path returned.
job_return(j) ==
    /\ cpc = "gather"
    /\ jobs[j] = "inside"
    /\ at_call[j] = "return"
    /\ leave(j, valid_html_files[j])
    /\ UNCHANGED <<dvars, styles, disk, remove_log, wrapup, cpc, source_pages, listing,
                   render_fails, html_files, valid_html_files, results, pdf_parts,
                   temp_pdf_parts, output_file, steps>>

\* newPage has returned: page is set (line 315).
HasPage(j) == Len(steps[j]) > 1

\* lines 343-350: the error is printed, the page closed if there is one
\* (an error of that close is passed over), and None returned.
job_except(j) ==
    /\ cpc = "gather"
    /\ jobs[j] = "inside"
    /\ at_call[j] = "except"
    /\ steps' = [steps EXCEPT ![j] = IF HasPage(j) THEN Append(@, CallMade("close")) ELSE @]
    /\ leave(j, 0)
    /\ UNCHANGED <<dvars, styles, disk, remove_log, wrapup, cpc, source_pages, listing,
                   render_fails, html_files, valid_html_files, results, pdf_parts,
                   temp_pdf_parts, output_file>>

\* What gather yields once every task has returned: one result per task, in
\* the order of the tasks.
gathered == [j \in 1..Len(valid_html_files) |-> returned[j]]

NotNone(x) == x # 0

\* lines 458-461
gather ==
    /\ cpc = "gather"
    /\ \A j \in DOMAIN jobs : jobs[j] = "returned"
    /\ results' = gathered
    /\ pdf_parts' = SelectSeq(gathered, NotNone)
    /\ cpc' = "merge"
    /\ UNCHANGED <<dvars, styles, tab, disk, remove_log, wrapup, source_pages, listing, render_fails, html_files,
                   valid_html_files, semaphore, jobs, returned, temp_pdf_parts,
                   output_file, overtaken>>

\* The document rendered for fragment f, page by page: one physical page, or
\* two when the fragment overflows.
Document(f) ==
    IF f \in overflow
    THEN <<[part |-> f, page |-> 1], [part |-> f, page |-> 2]>>
    ELSE <<[part |-> f, page |-> 1]>>

\* pages=(0, 1), line 366: the pages of the part with index 0 <= k < 1.
PageRange(doc) == SubSeq(doc, 1, 1)

\* The loop of lines 363-368 without the try: the first append that raises
\* ends it.
RECURSIVE merger_append_until_failure(_)
merger_append_until_failure(parts) ==
    IF parts = <<>> \/ Head(parts) \in append_fails THEN <<>>
    ELSE PageRange(Document(Head(parts))) \o merger_append_until_failure(Tail(parts))

\* lines 362-368: the pages in the writer after the loop. An append that
\* raises is warned about and adds nothing; the loop goes on to the next part.
RECURSIVE merger_append(_)
merger_append(parts) ==
    IF parts = <<>> THEN <<>>
    ELSE (IF Head(parts) \in append_fails THEN <<>>
          ELSE PageRange(Document(Head(parts))))
         \o merger_append(Tail(parts))

\* merge_pdfs writing the output whatever the list: an empty document for an
\* empty list.
merge_pdfs_unguarded ==
    /\ cpc = "merge"
    /\ output_file' = [written |-> TRUE, pages |-> merger_append(pdf_parts)]
    /\ merge_report' = "merged"
    /\ cpc' = "cleanup"
    /\ UNCHANGED <<dvars, styles, tab, disk, remove_log, cleanup, source_dir, source_pages, listing,
                   render_fails, html_files, valid_html_files, semaphore, jobs, returned,
                   results, pdf_parts, temp_pdf_parts, overtaken>>

\* merge_pdfs, lines 353-372, as line 463 calls it: for an empty list it
\* prints "No PDF parts were created. Aborting merge." and returns; else it
\* appends the parts in the order of the list, writes what was appended and
\* prints the success line. A write that raises (line 370) is not caught,
\* here or in perform_convert_action: the exception leaves both.
merge_pdfs ==
    /\ cpc = "merge"
    /\ IF pdf_parts = <<>>
       THEN /\ output_file' = output_file
            /\ merge_report' = "aborted"
            /\ cpc' = "cleanup"
       ELSE IF write_raises
       THEN /\ output_file' = output_file
            /\ merge_report' = merge_report
            /\ cpc' = "raised"
       ELSE /\ output_file' = [written |-> TRUE, pages |-> merger_append(pdf_parts)]
            /\ merge_report' = "merged"
            /\ cpc' = "cleanup"
    /\ UNCHANGED <<dvars, styles, tab, disk, remove_log, cleanup, source_dir, source_pages, listing,
                   render_fails, html_files, valid_html_files, semaphore, jobs, returned,
                   results, pdf_parts, temp_pdf_parts, overtaken>>

\* The loop of lines 466-468 without the try: the first os.remove that
\* raises ends it.
RECURSIVE remove_calls_until_failure(_)
remove_calls_until_failure(parts) ==
    IF parts = <<>> THEN <<>>
    ELSE IF Head(parts) \in remove_fails THEN <<Head(parts)>>
    ELSE <<Head(parts)>> \o remove_calls_until_failure(Tail(parts))

\* lines 466-468: os.remove is called with every part of the list, in order;
\* one that raises is passed over.
remove_calls(parts) == parts

\* lines 465-470: the parts are removed, those os.remove raises on stay; the
\* rmdir of line 469 has no effect on the parts.
remove_parts ==
    /\ cpc = "cleanup"
    /\ remove_log' = remove_calls(pdf_parts)
    /\ temp_pdf_parts' = temp_pdf_parts \ (Range(remove_log') \ remove_fails)
    /\ cpc' = "rmtree"
    /\ UNCHANGED <<dvars, styles, tab, disk, wrapup, source_pages, listing, render_fails, html_files,
                   valid_html_files, semaphore, jobs, returned, results, pdf_parts,
                   output_file, overtaken>>

\* lines 497-519: with cleanup, the source directory is removed unless the
\* output file lies inside it (line 508); a failing rmtree is logged.
cleanup_source ==
    /\ cpc = "rmtree"
    /\ IF cleanup
       THEN \E inside \in BOOLEAN, removed \in BOOLEAN :
               source_dir' = IF ~inside /\ removed THEN "removed" ELSE source_dir
       ELSE UNCHANGED source_dir
    /\ cpc' = "done"
    /\ UNCHANGED <<dvars, styles, tab, disk, remove_log, merge_report, cleanup, source_pages, listing, render_fails,
                   html_files, valid_html_files, semaphore, jobs, returned, results,
                   pdf_parts, temp_pdf_parts, output_file, overtaken>>

NextConvert ==
    \/ sort_files
    \/ classify
    \/ launch
    \/ \E j \in DOMAIN jobs : acquire(j)
    \/ \E j \in DOMAIN jobs : convert_single_page(j)
    \/ gather
    \/ merge_pdfs
    \/ remove_parts
    \/ cleanup_source

\* The conversion with the render jobs followed call by call.
NextRender ==
    \/ sort_files
    \/ classify
    \/ launch
    \/ \E j \in DOMAIN jobs : acquire(j)
    \/ \E j \in DOMAIN jobs : render_call(j)
    \/ \E j \in DOMAIN jobs : job_return(j)
    \/ \E j \in DOMAIN jobs : job_except(j)
    \/ gather
    \/ merge_pdfs
    \/ remove_parts
    \/ cleanup_source

\* ------------------------------------------------------- specifications
\* A download.
Init == InitDownload /\ IdleConvert

Spec == Init /\ [][NextDownload]_vars

\* A conversion of a small source directory.
SpecConvert == InitConvert /\ [][NextConvert]_vars

\* A conversion with more render jobs than permits.
SpecPool == InitPool /\ [][NextConvert]_vars

\* The same with the event loop running the render stage: a task that can
\* acquire a permit does, a render step returns or raises, and gather
\* returns once every task has.
SpecPoolFair ==
    /\ SpecPool
    /\ WF_vars(\E j \in DOMAIN jobs : acquire(j))
    /\ WF_vars(\E j \in DOMAIN jobs : convert_single_page(j))
    /\ WF_vars(gather)

\* A conversion of fragments of every kind of content.
SpecClassify == InitClassify /\ [][NextConvert]_vars

\* A conversion whose render jobs are followed call by call.
SpecRender == InitRender /\ [][NextRender]_vars

\* A conversion whose merge, and whose removal of the parts, can fail.
SpecMerge == InitMerge /\ [][NextConvert]_vars

\* =============================================================== claims
\* ------------------------------------------------ reading the wire log
IsSentEnvelope(e) == e.dir = "S" /\ IsEnvelope(e.pkt)

IsPageRequest(e) == IsSentEnvelope(e) /\ e.pkt.name = "page"

\* The page indices requested, in the order of the requests.
PagesRequested ==
    LET q == SelectSeq(trace, IsPageRequest) IN [k \in 1..Len(q) |-> q[k].pkt.num]

UpTo(n) == [k \in 1..n |-> k]

\* The place in the log of the last envelope sent, 0 if none was.
LastEnvelopeAt ==
    LET at == {t \in 1..Len(trace) : IsSentEnvelope(trace[t])}
    IN IF at = {} THEN 0 ELSE CHOOSE t \in at : \A u \in at : u <= t

\* What was sent and read since the last envelope went out.
CallLog == SubSeq(trace, LastEnvelopeAt + 1, Len(trace))

IsPingRead(e) == e.dir = "R" /\ e.pkt = Ping

IsPongSent(e) == e.dir = "S" /\ e.pkt = Pong

IsResponseRead(e) == e.dir = "R" /\ e.pkt # Ping

AfterOperation == pc \in {"aexit", "manifest", "done", "raised"}

\* ------------------------------------------------------------------- C1
\* The fetch of page i has failed with PermissionError: the loop is over and
\* the last message _handle_recv returned decodes to an authorization error.
AuthStop == AfterOperation /\ op = "page" /\ get_page_result(r).exc = "PermissionError"

\* C1: when the fetch of page k is the first to fail with an authorization
\* error, exactly the fragments 1..k-1 are persisted, the pages requested are
\* 1..k and no other, and the error does not leave perform_download_action.
C1_AuthStopKeepsPrefix ==
    AuthStop =>
        /\ i \in 1..page_count
        /\ DOMAIN pages_dir = 1..(i - 1)
        /\ PagesRequested = UpTo(i)
        /\ exc = "none"
        /\ pc # "raised"

\* Page 2 of 3 was denied and the download has finished with page 1.
C1_Witness ==
    /\ AuthStop
    /\ pc = "done"
    /\ page_count = 3
    /\ i = 2
    /\ DOMAIN pages_dir = {1}

\* ------------------------------------------------------------------- C2
EnvelopesSent == Len(SelectSeq(trace, IsSentEnvelope))

\* The place in the log of the first envelope sent, 0 if none was.
FirstEnvelopeAt ==
    LET at == {t \in 1..Len(trace) : IsSentEnvelope(trace[t])}
    IN IF at = {} THEN 0 ELSE CHOOSE t \in at : \A u \in at : t <= u

\* The messages _handle_recv has returned: what was read, pings apart, since
\* the first envelope went out.
ResponsesConsumed ==
    LET first == FirstEnvelopeAt
    IN IF first = 0 THEN 0
       ELSE Len(SelectSeq(SubSeq(trace, first, Len(trace)), IsResponseRead))

\* C2: at most one operation is outstanding: the envelopes sent exceed the
\* responses consumed by 0 or 1 in every state of the download.
C2_OneOutstanding == EnvelopesSent - ResponsesConsumed \in {0, 1}

\* The request for page 2 is awaiting its response, three operations after
\* the first.
C2_Witness ==
    /\ pc = "op_recv"
    /\ op = "page"
    /\ i = 2
    /\ EnvelopesSent = 4
    /\ ResponsesConsumed = 3

\* ------------------------------------------------------------------- C3
\* The result of the operation named by the envelope o on the message m.
ResultOf(o, m) ==
    CASE o = "page" -> get_page_result(m)
      [] o = "css"  -> get_css_result(m)
      [] OTHER      -> get_fonts_result(m)

PingsRead == Len(SelectSeq(CallLog, IsPingRead))

PongsSent == Len(SelectSeq(CallLog, IsPongSent))

\* C3: while an operation awaits its response every ping read is answered by
\* a pong before the next packet is read, the pongs sent are as many as the
\* pings read, the message returned is the first that is not a ping, and the
\* operation's result is the decoding of that message alone, whatever the
\* number of pings before it.
C3_HeartbeatTransparent ==
    LET last == LastEnvelopeAt
        log == SubSeq(trace, last + 1, Len(trace))
        n == Len(log)
        np == Len(SelectSeq(log, IsPingRead))
        nq == Len(SelectSeq(log, IsPongSent))
    IN last > 0 =>
        /\ \A t \in 1..n :
              /\ IsPingRead(log[t]) =>
                    IF t = n THEN pc \in {"op_pong", "aexit", "raised"}
                    ELSE IsPongSent(log[t + 1])
              /\ IsPongSent(log[t]) => t > 1 /\ IsPingRead(log[t - 1])
              /\ IsResponseRead(log[t]) => t = n /\ r = log[t].pkt
        /\ pc = "op_recv" => nq = np
        /\ pc = "op_return" =>
              /\ n = 2 * np + 1
              /\ nq = np
              /\ IsResponseRead(log[n])
        /\ (n > 0 /\ IsResponseRead(log[n]) /\ pc # "op_return") =>
              LET o == ResultOf(trace[last].pkt.name, log[n].pkt) IN
              /\ ret = o.val
              /\ o.exc \notin {"none", "PermissionError"} => exc = o.exc

\* Page 1 was returned after a ping, which was answered, and was persisted.
C3_Witness ==
    /\ pc = "loop"
    /\ i = 1
    /\ PingsRead = 1
    /\ PongsSent = 1
    /\ Len(CallLog) = 3
    /\ 1 \in DOMAIN pages_dir
    /\ pages_dir[1] = Content("page", 1)

\* ------------------------------------------------------------------- C7
\* The handshake as _hello performs it: send, read, send, send, read, read.
HelloDirs == <<"S", "R", "S", "S", "R", "R">>

HelloSends == <<Probe, Probe, Upgrade, Join, Join, Join>>

HelloLen == Len(HelloDirs)

BeforeReady ==
    pc \in {"start", "create_session", "ws_connect", "hello_probe", "hello_probe_recv",
            "hello_upgrade", "hello_join", "hello_ack_recv", "hello_ready_recv"}

\* The three answers of the handshake were the expected ones.
GoodHandshake ==
    /\ Len(trace) >= HelloLen
    /\ trace[2].pkt = ProbeOk
    /\ trace[5].pkt = Join
    /\ trace[6].pkt = Ready

\* C7: the client's first six steps on the channel are: send "2probe", read,
\* send "5", send "40/books,", read, read; no envelope is sent before them;
\* and when the answers are "3probe", "40/books," and the ready event, the
\* handshake has logged no mismatch and the session goes on to its operations.
C7_HandshakeOrder ==
    /\ \A t \in 1..Len(trace) :
          /\ t <= HelloLen =>
                /\ trace[t].dir = HelloDirs[t]
                /\ trace[t].dir = "S" => trace[t].pkt = HelloSends[t]
          /\ IsSentEnvelope(trace[t]) => t > HelloLen
    /\ Len(trace) < HelloLen => BeforeReady \/ pc = "raised"
    /\ Len(trace) >= HelloLen => ~BeforeReady
    /\ GoodHandshake => warnings = {}
    /\ (GoodHandshake /\ Len(trace) = HelloLen /\ ws = "open") =>
          pc = "op_send" /\ op = "font" /\ exc = "none"

\* After the expected handshake the font envelope has gone out.
C7_Witness ==
    /\ GoodHandshake
    /\ Len(trace) = HelloLen + 1
    /\ trace[HelloLen + 1] = [dir |-> "S", pkt |-> Envelope("font", 0)]
    /\ pc = "op_recv"

\* ------------------------------------------------------------------- C8
HelloReadAt == [h \in {"hello_probe_recv", "hello_ack_recv", "hello_ready_recv"} |->
                   CASE h = "hello_probe_recv" -> 2
                     [] h = "hello_ack_recv"   -> 5
                     [] OTHER                  -> 6]

\* C8: whatever the three handshake packets are, _hello raises nothing (an
\* exception in the handshake comes from a lost channel only), each mismatch
\* is logged and nothing else, and after the third packet the session is
\* used: the client is about to send, or has sent, the font envelope.
C8_MismatchNonFatal ==
    /\ ~(pc = "raised" /\ ws = "open")
    /\ (pc = "raised" /\ ws = "broken") => exc = "ConnectionClosed"
    /\ warnings = {h \in DOMAIN HelloReadAt :
                     /\ Len(trace) >= HelloReadAt[h]
                     /\ ~Expected(h, trace[HelloReadAt[h]].pkt)}
    /\ (Len(trace) = HelloLen /\ ws = "open") =>
          pc = "op_send" /\ op = "font" /\ exc = "none"

\* None of the three handshake packets was the expected one, and page 1 has
\* been fetched and persisted.
C8_Witness ==
    /\ warnings = DOMAIN HelloReadAt
    /\ trace[2].pkt = Junk
    /\ trace[5].pkt = Junk
    /\ trace[6].pkt = Junk
    /\ 1 \in DOMAIN pages_dir

\* ------------------------------------------------------------------- C9
\* The message returned to get_page for page i cannot be decoded into the
\* expected envelope.
PageDecodeFailed ==
    /\ AfterOperation
    /\ op = "page"
    /\ get_page_result(r).exc \in {"IndexError", "JSONDecodeError", "KeyError"}

\* C9: when the response to get_page cannot be decoded, or the channel is
\* lost during a page fetch, the error leaves perform_download_action: it is
\* not handled, no page after the failing one is requested, and no manifest
\* is written.
C9_ProtocolFailureIsFatal ==
    /\ PageDecodeFailed => exc = get_page_result(r).exc
    /\ (op = "page" /\ exc # "none") =>
          /\ pc \in {"aexit", "raised"}
          /\ ~manifest.written
          /\ PagesRequested \in {UpTo(i), UpTo(i - 1)}
          /\ DOMAIN pages_dir = 1..(i - 1)
    /\ pc = "raised" => exc # "none" /\ ~manifest.written

\* The response for page 2 had no html field: KeyError left the function
\* after the channel was closed, with page 1 on disk and no manifest.
C9_Witness ==
    /\ pc = "raised"
    /\ op = "page"
    /\ i = 2
    /\ page_count = 3
    /\ r = RespNoHtml
    /\ exc = "KeyError"
    /\ ws = "closed"
    /\ DOMAIN pages_dir = {1}
    /\ ~manifest.written

\* ------------------------------------------------------------------ C10
\* C10: a manifest is written exactly when perform_download_action returns,
\* which it does when the loop ended normally or by an authorization stop;
\* its count is the number of fragments persisted, these are 1..count, and
\* count is at most page_count.
C10_ManifestCount ==
    /\ manifest.written <=> pc = "done"
    /\ pc \in {"manifest", "done"} => exc = "none"
    /\ (pc = "aexit" /\ exc = "none") => (stopped_at = i \/ i = page_count)
    /\ manifest.written =>
          /\ manifest.num_pages_downloaded = Cardinality(DOMAIN pages_dir)
          /\ DOMAIN pages_dir = 1..manifest.num_pages_downloaded
          /\ manifest.num_pages_downloaded <= page_count

\* Page 2 of 3 was denied: the manifest counts the one fragment persisted.
C10_Witness ==
    /\ pc = "done"
    /\ stopped_at = 2
    /\ page_count = 3
    /\ manifest = [written |-> TRUE, num_pages_downloaded |-> 1]
    /\ DOMAIN pages_dir = {1}

\* ------------------------------------------------------------------- C4
\* merge_pdfs is about to be called, or has been, with pdf_parts.
Gathered == cpc \in {"merge", "cleanup", "rmtree"} \/ (cpc = "done" /\ html_files # <<>>)

\* C4: the list handed to merge_pdfs is in strictly ascending fragment index
\* order, so no fragment is in it twice, whatever the order in which glob
\* listed the files and in which the render jobs returned.
C4_PartsAscending ==
    Gathered => \A a, b \in 1..Len(pdf_parts) : a < b => pdf_parts[a] < pdf_parts[b]

\* Three fragments listed last first, a later job returned before an earlier
\* one, and all three parts are handed to merge_pdfs in index order.
C4_Witness ==
    /\ cpc = "merge"
    /\ listing = <<3, 2, 1>>
    /\ overtaken
    /\ pdf_parts = <<1, 2, 3>>

\* ------------------------------------------------------------------- C5
Inside == {j \in DOMAIN jobs : jobs[j] = "inside"}

\* C5: at most 10 convert_single_page jobs are inside the section guarded by
\* the semaphore at any time, however many fragments there are.
C5_AtMostTenInside == Cardinality(Inside) <= 10

\* Ten jobs are inside and the eleventh is waiting for a permit.
C5_Witness ==
    /\ Cardinality(Inside) = 10
    /\ semaphore = 0
    /\ \E j \in DOMAIN jobs : jobs[j] = "waiting"

\* ------------------------------------------------------------------- C6
\* The fragments classified non-empty whose rendering does not raise.
Rendered == {f \in DOMAIN source_pages : ~is_html_empty(source_pages[f]) /\ f \notin render_fails}

\* C6: a job that fails returns None and nothing else happens: gather ends
\* only when every job has returned, each job has returned its own document
\* or None, and the list handed to merge_pdfs holds exactly the fragments
\* classified non-empty and rendered successfully, each once.
C6_FailureIsolated ==
    /\ \A j \in DOMAIN jobs :
          jobs[j] = "returned" =>
              returned[j] = IF valid_html_files[j] \in render_fails THEN 0
                            ELSE valid_html_files[j]
    /\ Gathered =>
          /\ \A j \in DOMAIN jobs : jobs[j] = "returned"
          /\ Len(results) = Len(valid_html_files)
          /\ Range(pdf_parts) = Rendered
          /\ Len(pdf_parts) = Cardinality(Rendered)

\* Fragments 1, 2 and 3 are non-empty, the rendering of 2 failed, jobs 1 and 3
\* returned their documents, and merge_pdfs is handed exactly 1 and 3.
C6_Witness ==
    /\ cpc = "merge"
    /\ valid_html_files = <<1, 2, 3>>
    /\ render_fails = {2}
    /\ results = <<1, 0, 3>>
    /\ pdf_parts = <<1, 3>>

\* ------------------------------------------------------------------ C11
\* The session bootstrap has failed: raise_for_status() raised HTTPError, or
\* the response had no "sid" (KeyError), before any operation was begun.
BootstrapFailed == op = "none" /\ exc \in {"HTTPError", "KeyError"}

\* C11: when the session bootstrap fails the connection attempt fails: the
\* error leaves the function, the channel is not opened, nothing is sent or
\* read on it (no handshake packet, no envelope), and nothing is written (no
\* fragment, no stylesheet, no manifest).
C11_BootstrapFailureStops ==
    BootstrapFailed =>
        /\ pc = "raised"
        /\ ws = "none"
        /\ trace = <<>>
        /\ inbox = <<>>
        /\ pages_dir = <<>>
        /\ ~css_written
        /\ ~manifest.written

\* The polling response was not 2xx: the attempt has ended with the HTTPError.
C11_Witness ==
    /\ pc = "raised"
    /\ exc = "HTTPError"
    /\ ws = "none"
    /\ trace = <<>>

\* ------------------------------------------------------------------ C12
\* C12: merge_pdfs called with an empty list writes no output file, returns
\* to its caller without raising, and reports that nothing was merged.
C12_EmptyMergeIsReportedNoOp ==
    [][(cpc = "merge" /\ pdf_parts = <<>>) =>
          /\ cpc' = "cleanup"
          /\ output_file' = NoOutput
          /\ merge_report' = "aborted"]_vars

\* Both fragments were submitted, both render jobs failed, and merge_pdfs has
\* returned from the empty list it was given.
C12_Witness ==
    /\ cpc = "cleanup"
    /\ Len(valid_html_files) = 2
    /\ results = <<0, 0>>
    /\ pdf_parts = <<>>
    /\ merge_report = "aborted"
    /\ ~output_file.written

\* ------------------------------------------------------------------ C13
\* The places in the wire log of the three reads _hello makes.
HelloReads == {2, 5, 6}

\* C13: every ping read on the channel, in the handshake as well as in an
\* operation, is answered by a pong before anything else is read (the pong
\* is the next entry of the wire log, or the client is about to send it or
\* has found the channel lost), is not one of the three packets _hello
\* takes as confirmations, and is not returned as an operation's response.
C13_EveryPingAnswered ==
    /\ \A t \in 1..Len(trace) :
          IsPingRead(trace[t]) =>
              /\ t \notin HelloReads
              /\ IF t = Len(trace) THEN pc \in {"op_pong", "aexit", "raised"}
                 ELSE IsPongSent(trace[t + 1])
    /\ pc = "op_return" => r # Ping

\* The ping sent before the probe's answer was read by _hello as that answer
\* and not answered; the handshake packets were read one place late, and the
\* ready event, left over, was returned to get_fonts, which raised.
C13_Witness ==
    /\ Len(trace) > HelloLen
    /\ trace[2] = [dir |-> "R", pkt |-> Ping]
    /\ trace[3] = [dir |-> "S", pkt |-> Upgrade]
    /\ trace[5].pkt = ProbeOk
    /\ trace[6].pkt = Join
    /\ "hello_probe_recv" \in warnings
    /\ op = "font"
    /\ r = Ready
    /\ exc = "IndexError"

\* ------------------------------------------------------------------ C14
\* get_page has ended, by a return or an exception, on the message r: the
\* last page operation is over and r is what _handle_recv returned to it.
PageCallEnded ==
    /\ op = "page"
    /\ pc \in {"loop", "aexit", "manifest", "done", "raised"}
    /\ exc # "ConnectionClosed"

\* What the loop body shows of a get_page that raised PermissionError: it
\* stopped at page i without persisting it (ret is the error's message).
FailedWithAuthorization ==
    /\ stopped_at = i
    /\ i \notin DOMAIN pages_dir
    /\ exc = "none"

\* What the loop body shows of a get_page that returned h: page i holds h.
ReturnedHtml(h) ==
    /\ stopped_at = 0
    /\ ret = h
    /\ i \in DOMAIN pages_dir
    /\ pages_dir[i] = h
    /\ exc = "none"

\* C14 as claimed: for every decodable response, get_page fails with an
\* authorization error carrying the server's message when the result object
\* has an error field, and returns the html field otherwise.
C14_ErrorFieldPresent ==
    (PageCallEnded /\ DecodeFailure(r) = "none") =>
        IF r.err # "absent"
        THEN FailedWithAuthorization /\ (r.msg # "" => ret = <<r.msg>>)
        ELSE r.has_html => ReturnedHtml(r.html)

\* C14 as the code has it: the authorization error is raised when the error
\* field is there with a truthy value, with the server's message or, none
\* being supplied, "Error fetching page"; when the field is absent or falsy
\* the html field is returned, and its absence is a KeyError.
C14_ErrorFieldTruthy ==
    (PageCallEnded /\ DecodeFailure(r) = "none") =>
        IF r.err = "truthy"
        THEN /\ FailedWithAuthorization
             /\ ret = <<IF r.msg # "" THEN r.msg ELSE "Error fetching page">>
        ELSE IF r.has_html THEN ReturnedHtml(r.html)
        ELSE exc = "KeyError" /\ i \notin DOMAIN pages_dir

\* The response for page 1 was {"error": false, "html": ...}: page 1 holds
\* the html.
C14_Witness ==
    /\ pc = "loop"
    /\ i = 1
    /\ r = RespErrorFalse(1)
    /\ 1 \in DOMAIN pages_dir
    /\ pages_dir[1] = Content("page", 1)

\* ------------------------------------------------------------------ C15
\* The tasks have been created from valid_html_files.
Launched == cpc \in {"gather", "merge", "cleanup", "rmtree"} \/ (cpc = "done" /\ html_files # <<>>)

\* The fragments submitted to rendering, one task each.
Submitted == {valid_html_files[j] : j \in DOMAIN jobs}

\* The body of c has no text, no media element and, inside it, no inline
\* style with "url(" (a document without a body has none of them).
NothingToShow(c) == ~c.body \/ (~c.text /\ ~c.media /\ c.style_url # "inner")

NthOperation(k) == IF k = 1 THEN "font" ELSE IF k = 2 THEN "css" ELSE "page"

\* C16: the envelopes sent are, in this order, one for the fonts, one for the
\* stylesheet, and the page requests for 1, 2, ..., m, each index once and
\* none above page_count; when the request for page k goes out the fragments
\* 1..k-1 are persisted, and so are the font and stylesheet files.
C16_StrictSequence ==
    LET env == SelectSeq(trace, IsSentEnvelope)
        n == Len(env)
    IN /\ \A k \in 1..n :
             /\ env[k].pkt.name = NthOperation(k)
             /\ k > 2 => env[k].pkt.num = k - 2
       /\ n > 2 =>
             /\ n - 2 <= page_count
             /\ css_written
             /\ \/ DOMAIN pages_dir = 1..(n - 3)
                \/ DOMAIN pages_dir = 1..(n - 2)
       /\ n <= 2 => pages_dir = <<>>

\* The request for page 3 has gone out after fonts, stylesheet, page 1 and
\* page 2, with pages 1 and 2 persisted.
C16_Witness ==
    /\ pc = "op_recv"
    /\ i = 3
    /\ PagesRequested = <<1, 2, 3>>
    /\ DOMAIN pages_dir = {1, 2}
    /\ css_written

\* ------------------------------------------------------------------ C17
\* What the server sent for the request for page k, one entry per request.
AnswersToPage(k) == SelectSeq(answers, LAMBDA a : a.req = Envelope("page", k))

\* C17: the server answering each request once, in order, with pings at any
\* place, the fragment persisted under index k is the html of the message
\* the server sent in answer to the request for page k: not that of another
\* page, of the fonts or the stylesheet, or a handshake packet.
C17_ResponseCorrelation ==
    \A k \in DOMAIN pages_dir :
        LET a == AnswersToPage(k)
        IN /\ Len(a) = 1
           /\ Len(a[1].reply) = 1
           /\ a[1].reply[1].has_html
           /\ pages_dir[k] = a[1].reply[1].html

\* A ping came between the request for page 2 and its response; pages 1 and
\* 2 hold what the server sent for them.
C17_Witness ==
    /\ pc = "loop"
    /\ i = 2
    /\ DOMAIN pages_dir = {1, 2}
    /\ pages_dir[1] = Content("page", 1)
    /\ pages_dir[2] = Content("page", 2)
    /\ PingsRead = 1
    /\ Len(CallLog) = 3

\* ------------------------------------------------------------------ C18
\* C18: the source directory is removed only when an output file has been
\* written: a conversion that ends without one leaves the directory there.
C18_SourceKeptWithoutOutput ==
    /\ source_dir = "removed" => output_file.written
    /\ (cleanup /\ cpc = "done" /\ ~output_file.written) => source_dir = "present"

\* Fragments were found, none was classified non-empty, merge_pdfs returned
\* from the empty list without writing, and the cleanup removed the
\* directory.
C18_Witness ==
    /\ cpc = "done"
    /\ cleanup
    /\ html_files # <<>>
    /\ valid_html_files = <<>>
    /\ merge_report = "aborted"
    /\ ~output_file.written
    /\ source_dir = "removed"

\* ------------------------------------------------------------------ C19
\* The session has been left: perform_download_action is past the
\* "async with", or an exception has left it.
SessionLeft == pc \in {"manifest", "done", "raised"}

\* close() has been called, or the channel was found lost, which is the
\* transport having closed it.
ChannelClosed == ws \in {"closed", "broken"}

\* C19: once the channel has been opened it is closed when the session has
\* been left, whichever way: the end of the loop, an authorization stop, an
\* error in an operation, an error in the handshake.
C19_ClosedOnEveryPath == (SessionLeft /\ ws # "none") => ChannelClosed

\* The namespace acknowledgement came as a binary frame: TypeError has left
\* _hello and the function, and the channel is still open.
C19_Witness ==
    /\ pc = "raised"
    /\ exc = "TypeError"
    /\ Len(trace) = 5
    /\ trace[5] = [dir |-> "R", pkt |-> Binary]
    /\ ws = "open"

\* ------------------------------------------------------------------ C20
\* Every task has returned, with the path of its document or None.
AllReturned ==
    \A j \in DOMAIN jobs :
        /\ jobs[j] = "returned"
        /\ returned[j] \in {0, valid_html_files[j]}

\* C20: with more tasks than permits the render stage ends: gather, once
\* started, returns; when it has, every task has returned a path or None,
\* the semaphore has all its permits back whether the tasks succeeded or
\* failed, and results holds one entry per task submitted.
C20_RenderStageTerminates ==
    /\ (cpc = "gather") ~> (cpc = "merge")
    /\ [](cpc = "merge" =>
             /\ AllReturned
             /\ semaphore = SemaphoreValue
             /\ Len(results) = Len(valid_html_files)
             /\ DOMAIN jobs = DOMAIN results)

\* Eleven tasks, one of which failed, have all returned: gather has yielded
\* eleven results and the ten permits are free.
C20_Witness ==
    /\ cpc = "merge"
    /\ Len(results) = 11
    /\ Cardinality(render_fails) = 1
    /\ Len(pdf_parts) = 10
    /\ semaphore = 10

\* ------------------------------------------------------------------ C21
\* merge_pdfs has returned from a list that was not empty.
Merged == cpc \in {"cleanup", "rmtree", "done"} /\ pdf_parts # <<>>

Appendable(p) == p \notin append_fails

\* The parts of the list that could be appended, in the order of the list.
Remaining == SelectSeq(pdf_parts, Appendable)

\* C21: a part whose append raises is left out and the merge goes on: for a
\* list that is not empty and any set of parts that cannot be appended,
\* merge_pdfs does not raise, the output is written, and it holds the first
\* page, and only the first, of each part that could be appended, in the
\* order of the list, no part twice.
C21_AppendFailureExcluded ==
    /\ (cpc = "raised") => write_raises
    /\ Merged =>
          /\ output_file.written
          /\ Len(output_file.pages) = Len(Remaining)
          /\ \A k \in 1..Len(Remaining) :
                output_file.pages[k] = [part |-> Remaining[k], page |-> 1]
          /\ \A a, b \in 1..Len(output_file.pages) :
                a # b => output_file.pages[a].part # output_file.pages[b].part

\* Three parts, the first of them spanning two pages, were handed to
\* merge_pdfs; the append of the second raised; the output holds page 1 of
\* part 1 and page 1 of part 3.
C21_Witness ==
    /\ cpc = "cleanup"
    /\ pdf_parts = <<1, 2, 3>>
    /\ append_fails = {2}
    /\ 1 \in overflow
    /\ output_file = [written |-> TRUE,
                      pages |-> <<[part |-> 1, page |-> 1], [part |-> 3, page |-> 1]>>]

\* ------------------------------------------------------------------ C23
\* The loop of lines 466-468 has ended.
PartsRemoved == cpc \in {"rmtree", "done"} /\ html_files # <<>>

LoopRanOut == pc = "done" /\ stopped_at = 0

\* C24: with a page count N >= 0 given by the caller the loop asks for the
\* pages 1..N and for no page beyond N, so that for N = 0 no page is asked
\* for and the manifest counts 0; the declared page count is the bound of
\* the loop only when the caller gave none.
C24_CallerCountBoundsLoop ==
    /\ arg_count.given =>
          /\ \A k \in 1..Len(PagesRequested) : PagesRequested[k] <= arg_count.n
          /\ LoopRanOut => PagesRequested = UpTo(arg_count.n)
          /\ (arg_count.n = 0 /\ manifest.written) => manifest.num_pages_downloaded = 0
          /\ pc # "start" => page_count = arg_count.n
    /\ (~arg_count.given /\ pc # "start") => page_count = declared

\* The caller gave the page count 0 for a book of one page: page 1 was
\* asked for and persisted, and the manifest counts one page.
C24_Witness ==
    /\ pc = "done"
    /\ arg_count = [given |-> TRUE, n |-> 0]
    /\ declared = 1
    /\ PagesRequested = <<1>>
    /\ DOMAIN pages_dir = {1}
    /\ manifest = [written |-> TRUE, num_pages_downloaded |-> 1]

\* ------------------------------------------------------------------ C22
\* The calls of a render job in the order the claim gives them: the page is
\* opened, the fragment loaded, the font bundle injected, the stylesheet
\* injected, the document produced; then the page is closed.
RenderOrder ==
    <<[call |-> "newPage", content |-> ""],
      [call |-> "goto", content |-> ""],
      [call |-> "addStyleTag", content |-> "fonts.css"],
      [call |-> "addStyleTag", content |-> "style.css"],
      [call |-> "pdf", content |-> ""],
      [call |-> "close", content |-> ""]>>

\* The place of a logged call in that order, 0 if it is none of them.
Rank(e) ==
    IF \E n \in 1..Len(RenderOrder) : RenderOrder[n] = e
    THEN CHOOSE n \in 1..Len(RenderOrder) : RenderOrder[n] = e
    ELSE 0

\* The ranks of the calls the task j has made.
Made(j) == {Rank(steps[j][k]) : k \in 1..Len(steps[j])}

\* C22: the calls of each render job come in the order open page, load
\* fragment, inject font bundle, inject stylesheet, produce document; the
\* stylesheet is not injected before the font bundle, nothing is injected
\* before the fragment is loaded, and the document is produced only after
\* the font bundle and the stylesheet, each unless it is empty, were
\* injected. An empty one is not injected at all, and none of the five
\* calls is made twice or after the page was closed.
C22_RenderOrder ==
    \A j \in DOMAIN steps :
        /\ \A k \in 1..Len(steps[j]) : Rank(steps[j][k]) # 0
        /\ \A a, b \in 1..Len(steps[j]) :
              (a < b /\ Rank(steps[j][b]) # 6) => Rank(steps[j][a]) < Rank(steps[j][b])
        /\ steps[j] # <<>> => 1 \in Made(j)
        /\ (Made(j) \cap {3, 4, 5}) # {} => 2 \in Made(j)
        /\ (4 \in Made(j) /\ font_content # "") => 3 \in Made(j)
        /\ 5 \in Made(j) =>
              /\ font_content # "" => 3 \in Made(j)
              /\ style_content # "" => 4 \in Made(j)
        /\ (jobs[j] = "returned" /\ returned[j] # 0) => {5, 6} \subseteq Made(j)

\* With a font bundle and a stylesheet, the first job has made its six calls
\* in order and returned its document while the second has loaded its
\* fragment and not yet injected anything.
C22_Witness ==
    /\ cpc = "gather"
    /\ Len(jobs) >= 2
    /\ jobs[1] = "returned"
    /\ returned[1] = 1
    /\ steps[1] = RenderOrder
    /\ jobs[2] = "inside"
    /\ Len(steps[2]) = 2

====
